---- MODULE Spec2Model ----
(***************************************************************************)
(* TaggingApp: the in-memory Document (core.document_state), its state     *)
(* file, the Tag Engine (py/tag_manager.py), the index cleanup             *)
(* (py/tag_cleanup_util.py), persistence (py/state_manager.py) and the     *)
(* request handlers (py/views.py), and the per-user config files           *)
(* (py/user_config_manager.py, py/reset_completion_status.py).             *)
(*                                                                         *)
(* A Python str is a sequence of one-character strings, so that lower(),   *)
(* strip(), split() and join() are computed and not assumed.               *)
(***************************************************************************)
EXTENDS Integers, Sequences, FiniteSets, TLC

VARIABLES doc, disk, outcome, call, user_config

vars == <<doc, disk, outcome, call, user_config>>

(***************************************************************************)
(* Bounds of the model.                                                    *)
(***************************************************************************)
MaxSections == 1
MaxNotes == 1
MaxCats == 2
MaxAndTags == 2
MaxLen == 3

(***************************************************************************)
(* Python str operations.                                                  *)
(***************************************************************************)
\* ord() of the characters that occur in the model
Code == (" " :> 32) @@ ("&" :> 38) @@ ("," :> 44) @@ ("A" :> 65) @@ ("B" :> 66) @@
        ("P" :> 80) @@ ("U" :> 85) @@ ("a" :> 97) @@ ("b" :> 98) @@
        ("c" :> 99) @@ ("d" :> 100) @@ ("e" :> 101) @@ ("g" :> 103) @@
        ("i" :> 105) @@ ("l" :> 108) @@ ("n" :> 110) @@ ("o" :> 111) @@
        ("p" :> 112) @@ ("r" :> 114) @@ ("t" :> 116) @@ ("u" :> 117) @@
        ("z" :> 122)

Chars == DOMAIN Code

\* str.lower() on one character: 'A'..'Z' map to 'a'..'z'
LowerChar ==
    [c \in Chars |->
       IF Code[c] >= 65 /\ Code[c] <= 90
       THEN CHOOSE d \in Chars : Code[d] = Code[c] + 32
       ELSE c]

\* str.lower()
Lower(s) == IF s = <<>> THEN <<>> ELSE [i \in 1..Len(s) |-> LowerChar[s[i]]]

\* s < t for Python str: lexicographic on code points
RECURSIVE StrLess(_, _)
StrLess(s, t) ==
    IF t = <<>> THEN FALSE
    ELSE IF s = <<>> THEN TRUE
    ELSE IF Code[s[1]] # Code[t[1]] THEN Code[s[1]] < Code[t[1]]
    ELSE StrLess(Tail(s), Tail(t))

\* str.strip(): leading and trailing blanks removed
RECURSIVE LStrip(_)
LStrip(s) == IF s # <<>> /\ s[1] = " " THEN LStrip(Tail(s)) ELSE s

RECURSIVE RStrip(_)
RStrip(s) ==
    IF s # <<>> /\ s[Len(s)] = " " THEN RStrip(SubSeq(s, 1, Len(s) - 1)) ELSE s

Strip(s) == RStrip(LStrip(s))

\* sep is a prefix of s
StartsWith(s, sep) == Len(s) >= Len(sep) /\ SubSeq(s, 1, Len(sep)) = sep

\* sep in s
RECURSIVE Contains(_, _)
Contains(s, sep) ==
    IF Len(s) < Len(sep) THEN FALSE
    ELSE StartsWith(s, sep) \/ Contains(Tail(s), sep)

\* s.split(sep), sep non-empty: the list of pieces, empty pieces included
RECURSIVE SplitFrom(_, _, _)
SplitFrom(s, sep, cur) ==
    IF s = <<>> THEN <<cur>>
    ELSE IF StartsWith(s, sep)
         THEN <<cur>> \o SplitFrom(SubSeq(s, Len(sep) + 1, Len(s)), sep, <<>>)
         ELSE SplitFrom(Tail(s), sep, Append(cur, s[1]))

Split(s, sep) == SplitFrom(s, sep, <<>>)

\* sep.join(parts)
RECURSIVE Join(_, _)
Join(parts, sep) ==
    IF parts = <<>> THEN <<>>
    ELSE IF Len(parts) = 1 THEN parts[1]
    ELSE parts[1] \o sep \o Join(Tail(parts), sep)

(***************************************************************************)
(* Python list and set operations.                                         *)
(***************************************************************************)
Range(l) == {l[i] : i \in 1..Len(l)}

\* [x for x in l if x in keep]
RECURSIVE FilterIn(_, _)
FilterIn(l, keep) ==
    IF l = <<>> THEN <<>>
    ELSE IF l[1] \in keep THEN <<l[1]>> \o FilterIn(Tail(l), keep)
    ELSE FilterIn(Tail(l), keep)

\* list(dict.fromkeys(l)): first occurrences, in order
RECURSIVE DedupKeepOrder(_)
DedupKeepOrder(l) ==
    IF l = <<>> THEN <<>>
    ELSE LET front == DedupKeepOrder(SubSeq(l, 1, Len(l) - 1))
             x == l[Len(l)]
         IN IF x \in Range(front) THEN front ELSE Append(front, x)

\* list.remove(x): the first occurrence of x removed
RECURSIVE RemoveFirst(_, _)
RemoveFirst(l, x) ==
    IF l = <<>> THEN <<>>
    ELSE IF l[1] = x THEN Tail(l)
    ELSE <<l[1]>> \o RemoveFirst(Tail(l), x)

\* one step of a stable sort by key=str.lower: x goes after every element
\* whose key is not greater than its own
RECURSIVE InsertByLower(_, _)
InsertByLower(sorted, x) ==
    IF sorted = <<>> THEN <<x>>
    ELSE IF StrLess(Lower(x), Lower(sorted[1])) THEN <<x>> \o sorted
    ELSE <<sorted[1]>> \o InsertByLower(Tail(sorted), x)

\* sorted(l, key=str.lower): stable
RECURSIVE SortedLower(_)
SortedLower(l) ==
    IF l = <<>> THEN <<>>
    ELSE InsertByLower(SortedLower(SubSeq(l, 1, Len(l) - 1)), l[Len(l)])

\* list(S) for a Python set S: one iteration order of the set
RECURSIVE ListOfSet(_)
ListOfSet(S) ==
    IF S = {} THEN <<>>
    ELSE LET x == CHOOSE y \in S : TRUE IN <<x>> \o ListOfSet(S \ {x})

\* sorted(list(set(...)), key=str.lower)
SortedSetLower(S) == SortedLower(ListOfSet(S))

\* the list is sorted by key=str.lower
IsSortedLower(l) ==
    \A i \in 1..Len(l) - 1 : ~StrLess(Lower(l[i + 1]), Lower(l[i]))

\* the list has no two equal entries
NoDuplicates(l) == \A i, j \in 1..Len(l) : l[i] = l[j] => i = j

(***************************************************************************)
(* The strings of the model.                                               *)
(***************************************************************************)
tA == <<"a">>
tB == <<"B">>
tAll == <<"A", "l", "l">>
tAllLower == <<"a", "l", "l">>
tAndAB == <<"a", "&", "B">>

nUncategorized == <<"U", "n", "c", "a", "t", "e", "g", "o", "r", "i", "z", "e", "d">>
nUncategorizedLower == Lower(nUncategorized)
nP == <<"P">>

\* request values of a category id that name no stored uuid
ID_UNCATEGORIZED == 0
ID_ALL_TAGS == -1
ID_NONE == -2

(***************************************************************************)
(* The Document (core.document_state) and its state file.                  *)
(* known_tags is kept as the set of its elements plus known_is_set, which  *)
(* tells whether the Python object is a set (TRUE) or a list (FALSE).      *)
(***************************************************************************)
SectionTags(s) ==
    Range(s.tags) \cup UNION {Range(s.notes[j].tags) : j \in 1..Len(s.notes)}

\* the tags applied to some section or note
ContentTags(d) == UNION {SectionTags(d.sections[i]) : i \in 1..Len(d.sections)}

\* the tags held by some category
CategoryTags(d) ==
    UNION {Range(d.tag_categories[i].tags) : i \in 1..Len(d.tag_categories)}

IsUncategorized(c) == Lower(c.name) = nUncategorizedLower

\* the tags held by a category other than Uncategorized
NonUncategorizedTags(d) ==
    UNION {Range(d.tag_categories[i].tags) :
             i \in {j \in 1..Len(d.tag_categories) : ~IsUncategorized(d.tag_categories[j])}}

\* tag.strip().lower() == 'all'
IsAllVariant(t) == Lower(Strip(t)) = tAllLower

\* str(uuid.uuid4()): an id no stored object has
FreshId(used) == CHOOSE n \in 1..(Cardinality(used) + 1) :
                    n \notin used /\ \A m \in 1..(n - 1) : m \in used

CatIds(d) == {d.tag_categories[i].id : i \in 1..Len(d.tag_categories)}
SectionIds(d) == {d.sections[i].id : i \in 1..Len(d.sections)}
NoteIds(d) ==
    UNION {{d.sections[i].notes[j].id : j \in 1..Len(d.sections[i].notes)} :
             i \in 1..Len(d.sections)}

\* tag_manager.combine_tags_to_and, given the order in which list(set(tags))
\* enumerates the distinct tags; sorted() is stable, so tags that differ only
\* in case keep that order
CombineInOrder(order) == Join(SortedLower(order), <<"&">>)

\* tag_manager.combine_tags_to_and for tags that are pairwise different when
\* lower-cased: the result does not depend on the enumeration order
CombineTagsToAnd(tags) == CombineInOrder(ListOfSet(Range(tags)))

\* [comp.strip() for comp in parts]
StripEach(parts) == [i \in 1..Len(parts) |-> Strip(parts[i])]

\* tag_manager.parse_and_tag_components
ParseAndTagComponents(tag_name) ==
    IF Contains(tag_name, <<"&">>)
    THEN IF Contains(tag_name, <<" ", "&", " ">>)
         THEN SortedLower(StripEach(Split(tag_name, <<" ", "&", " ">>)))
         ELSE SortedLower(StripEach(Split(tag_name, <<"&">>)))
    ELSE <<tag_name>>

\* tag_manager.is_category_tag: tag.strip().upper() in {"ALL", "UNCATEGORIZED"};
\* for these strings upper() agrees exactly when lower() agrees
IsCategoryTag(t) == Lower(Strip(t)) \in {tAllLower, nUncategorizedLower}

\* tag_manager.get_all_known_tags, as a set
GetAllKnownTags(d) ==
    {t \in ContentTags(d) \cup CategoryTags(d) : ~IsCategoryTag(t) /\ ~IsAllVariant(t)}

\* tag_manager.get_and_tags, as a set
GetAndTags(d) == {t \in Range(d.and_tags) : Contains(t, <<"&">>)}

\* views.find_category: the index of the category in tag_categories, 0 for None
FindCategory(d, category_id) ==
    LET cats == d.tag_categories
        hits == IF category_id = ID_UNCATEGORIZED
                THEN {i \in 1..Len(cats) : IsUncategorized(cats[i])}
                ELSE {i \in 1..Len(cats) : cats[i].id = category_id}
    IN IF hits = {} THEN 0 ELSE CHOOSE i \in hits : \A j \in hits : i <= j

\* the first category named Uncategorized (any case): its index, 0 for None
FindUncategorized(d) == FindCategory(d, ID_UNCATEGORIZED)

\* a sync_known_tags that recomputes known_tags from usage and appends the
\* result to Uncategorized without removing what is already there
SyncKnownTagsAppending(d, new_tags) ==
    LET all == (d.known_tags \cup CategoryTags(d) \cup ContentTags(d) \cup Range(new_tags))
    IN [d EXCEPT !.known_tags = {t \in all : ~IsAllVariant(t)},
                 !.tag_categories =
                    [i \in 1..Len(d.tag_categories) |->
                       [d.tag_categories[i] EXCEPT
                          !.tags = IF IsUncategorized(d.tag_categories[i])
                                   THEN @ \o ListOfSet({t \in all : ~IsAllVariant(t)})
                                   ELSE @]]]

\* tag_manager.sync_known_tags: the function body ends where _is_category_tag
\* is defined, so it only adds new_tags to known_tags, and only when known_tags
\* is a set (for a list the update goes to a copy)
SyncKnownTags(d, new_tags) ==
    IF d.known_is_set /\ new_tags # <<>>
    THEN [d EXCEPT !.known_tags = @ \cup Range(new_tags)]
    ELSE d

\* tag_manager.cleanup_orphan_tags without the removal of unused tags
CleanupOrphanTagsKeeping(d) ==
    [d EXCEPT !.known_is_set = FALSE,
              !.tag_categories =
                  [i \in 1..Len(d.tag_categories) |->
                     [d.tag_categories[i] EXCEPT !.tags = SortedSetLower(Range(@))]]]

\* tag_manager.cleanup_orphan_tags; core has no save_state, so nothing is saved
CleanupOrphanTags(d) ==
    LET reserved_tags == {tAllLower, tAll}
        uncategorized_names == {nUncategorizedLower, nUncategorized}
        cats == d.tag_categories
        used_tags ==
            (ContentTags(d) \cup
             UNION {Range(cats[i].tags) :
                      i \in {j \in 1..Len(cats) :
                               Lower(Strip(cats[j].name)) \notin uncategorized_names}})
            \ reserved_tags
    IN [d EXCEPT !.known_tags = used_tags,
                 !.known_is_set = FALSE,
                 !.tag_categories =
                     [i \in 1..Len(cats) |->
                        [cats[i] EXCEPT
                           !.tags = FilterIn(SortedSetLower(Range(FilterIn(@, used_tags))),
                                             used_tags \ reserved_tags)]]]

\* tag_cleanup_util.remove_orphan_tags
RemoveOrphanTags(d) ==
    LET used_tags == ContentTags(d)
        valid_tags == used_tags \cup NonUncategorizedTags(d)
    IN [d EXCEPT !.known_tags = {t \in @ : t \in valid_tags /\ ~IsAllVariant(t)},
                 !.known_is_set = FALSE,
                 !.tag_categories =
                     [i \in 1..Len(@) |->
                        [@[i] EXCEPT
                           !.tags = IF IsUncategorized(d.tag_categories[i])
                                    THEN FilterIn(@, {t \in used_tags : ~IsAllVariant(t)})
                                    ELSE FilterIn(@, {t \in valid_tags : ~IsAllVariant(t)})]]]

\* state_manager.save_state: what json.dump writes to the state file
SaveState(d) ==
    [sections |-> d.sections, known_tags |-> d.known_tags,
     tag_categories |-> d.tag_categories, and_tags |-> d.and_tags]

\* state_manager.load_state of an existing, well-formed state file
LoadState(f) ==
    LET cats == IF f.tag_categories = <<>>
                THEN <<[id |-> FreshId({}), name |-> nUncategorized,
                        tags |-> SortedSetLower(f.known_tags)]>>
                ELSE f.tag_categories
    IN SyncKnownTags(
         [sections |-> f.sections, known_tags |-> f.known_tags, known_is_set |-> TRUE,
          tag_categories |->
              [i \in 1..Len(cats) |-> [cats[i] EXCEPT !.tags = DedupKeepOrder(@)]],
          and_tags |-> f.and_tags],
         <<>>)

\* no call of the AND-tag helpers is in progress
NoCall == [stage |-> "none", tags |-> <<>>, and_tag |-> <<>>, components |-> <<>>]

\* state_manager.create_default_state
DefaultState ==
    [sections |-> <<>>, known_tags |-> {tAll}, known_is_set |-> TRUE,
     tag_categories |-> <<[id |-> FreshId({}), name |-> nUncategorized, tags |-> <<tAll>>]>>,
     and_tags |-> <<>>]

(***************************************************************************)
(* Request handlers (py/views.py). Every action is one whole request.      *)
(***************************************************************************)
\* the tag lists a section or note form submits
TagInputs == {<<>>, <<tA>>, <<tB, tA>>, <<tAll>>}

\* How the last request ended:
\*   "saved"    the handler changed the Document and saved it
\*   "cleanup"  as "saved", with cleanup_orphan_tags run just before the save
\*   "index"    views.index rendered the page (load, remove_orphan_tags, save)
\*   "rejected" the handler reported a failure (error notice or success=false)
\*   "ignored"  the handler returned at once, with no notice and no change
\*   "raised"   the handler raised, which Flask answers with HTTP 500
Saved(d) ==
    /\ doc' = d
    /\ disk' = SaveState(d)
    /\ outcome' = "saved"
    /\ UNCHANGED <<call, user_config>>

SavedAfterCleanup(d) ==
    /\ doc' = d
    /\ disk' = SaveState(d)
    /\ outcome' = "cleanup"
    /\ UNCHANGED <<call, user_config>>

Rejected(d) ==
    /\ doc' = d
    /\ UNCHANGED disk
    /\ outcome' = "rejected"
    /\ UNCHANGED <<call, user_config>>

Raised(d) ==
    /\ doc' = d
    /\ UNCHANGED disk
    /\ outcome' = "raised"
    /\ UNCHANGED <<call, user_config>>

\* What a handler leaves behind: the Document and how the request ended.
Answer(d, o) == [doc |-> d, outcome |-> o]

\* The state file after the handler: state_manager.save_state runs on the
\* successful paths only.
Persisted(answer, f) ==
    IF answer.outcome \in {"saved", "cleanup"} THEN SaveState(answer.doc) ELSE f

\* the users whose config files exist or are created
Users == {"default_user", "guest"}

\* no file user-config/<username>_config.json exists yet: load_user_config
\* returns {}
NoUserConfig == [u \in Users |-> [k \in {} |-> {}]]

Init ==
    /\ doc = DefaultState
    /\ disk = SaveState(DefaultState)
    /\ outcome = "saved"
    /\ call = NoCall
    /\ user_config = NoUserConfig

\* views.index: load, remove_orphan_tags, save
Index ==
    /\ doc' = RemoveOrphanTags(LoadState(disk))
    /\ disk' = SaveState(doc')
    /\ outcome' = "index"
    /\ UNCHANGED <<call, user_config>>

\* views.add_section, after_section_id empty: the section goes first
AddSection ==
    \E tags \in TagInputs :
        /\ Len(doc.sections) < MaxSections
        /\ LET new_section == [id |-> FreshId(SectionIds(doc)), tags |-> tags,
                               notes |-> <<>>]
           IN Saved([doc EXCEPT !.sections = <<new_section>> \o @])

\* views.delete_section
DeleteSection ==
    \E section_id \in 1..(MaxSections + 1) :
        IF section_id \in SectionIds(doc)
        THEN SavedAfterCleanup(CleanupOrphanTags(
                     [doc EXCEPT !.sections =
                          SelectSeq(@, LAMBDA s : s.id # section_id)]))
        ELSE Rejected(doc)

\* views.add_note
AddNote ==
    \E section_id \in 1..(MaxSections + 1), tags \in TagInputs :
        IF section_id \in SectionIds(doc)
        THEN /\ \A i \in 1..Len(doc.sections) :
                    doc.sections[i].id = section_id => Len(doc.sections[i].notes) < MaxNotes
             /\ LET new_note == [id |-> FreshId(NoteIds(doc)), tags |-> tags]
                IN Saved([doc EXCEPT !.sections =
                            [i \in 1..Len(@) |->
                               IF @[i].id = section_id
                               THEN [@[i] EXCEPT !.notes = Append(@, new_note)]
                               ELSE @[i]]])
        ELSE Rejected(doc)

\* views.update_section
UpdateSection ==
    \E section_id \in 1..(MaxSections + 1), tags \in TagInputs :
        IF section_id \in SectionIds(doc)
        THEN Saved(SyncKnownTags(
                     [doc EXCEPT !.sections =
                        [i \in 1..Len(@) |->
                           IF @[i].id = section_id THEN [@[i] EXCEPT !.tags = tags]
                           ELSE @[i]]],
                     <<>>))
        ELSE Rejected(doc)

\* content_processor.find_section_and_note found the note
NoteFound(d, section_id, note_id) ==
    \E i \in 1..Len(d.sections) :
        /\ d.sections[i].id = section_id
        /\ \E j \in 1..Len(d.sections[i].notes) : d.sections[i].notes[j].id = note_id

\* views.update_note
UpdateNote ==
    \E section_id \in 1..(MaxSections + 1), note_id \in 1..(MaxNotes + 1),
       tags \in TagInputs :
        IF NoteFound(doc, section_id, note_id)
        THEN Saved(SyncKnownTags(
                     [doc EXCEPT !.sections =
                        [i \in 1..Len(@) |->
                           IF @[i].id = section_id
                           THEN [@[i] EXCEPT !.notes =
                                   [j \in 1..Len(@) |->
                                      IF @[j].id = note_id
                                      THEN [@[j] EXCEPT !.tags = tags]
                                      ELSE @[j]]]
                           ELSE @[i]]],
                     <<>>))
        ELSE Rejected(doc)

\* views.delete_note
DeleteNote ==
    \E section_id \in 1..(MaxSections + 1), note_id \in 1..(MaxNotes + 1) :
        IF NoteFound(doc, section_id, note_id)
        THEN SavedAfterCleanup(CleanupOrphanTags(
                     [doc EXCEPT !.sections =
                        [i \in 1..Len(@) |->
                           IF @[i].id = section_id
                           THEN [@[i] EXCEPT !.notes =
                                   SelectSeq(@, LAMBDA n : n.id # note_id)]
                           ELSE @[i]]]))
        ELSE Rejected(doc)

\* the tag names a tag form submits; <<>> is an empty field
TagNames == {<<>>, tA, tB}

\* the category ids a request carries
CategoryIdInputs == (1..MaxCats) \cup {ID_UNCATEGORIZED, ID_NONE}

\* category c with tag t appended, neither looking for t in the list nor
\* sorting it afterwards
WithTagAppended(c, t) == [c EXCEPT !.tags = Append(@, t)]

\* category c with tag t appended and the list re-sorted, when t is not in it
\* (views.move_tag and views.add_global_tag)
WithTag(c, t) ==
    IF t \in Range(c.tags) THEN c
    ELSE [c EXCEPT !.tags = SortedLower(Append(@, t))]

\* views.add_global_tag
AddGlobalTagTarget(d, target_category_id) ==
    LET found == FindCategory(d, target_category_id)
        fallback == FindUncategorized(d)
    IN IF found # 0 THEN found ELSE IF fallback # 0 THEN fallback ELSE 1

AddGlobalTagOn(d, new_tag, target_category_id) ==
    IF new_tag = <<>> THEN Answer(d, "rejected")
    ELSE IF Lower(new_tag) \in {Lower(t) : t \in GetAllKnownTags(d)}
    THEN Answer(d, "rejected")
    ELSE IF ~d.known_is_set THEN Answer(d, "raised")
    ELSE LET d1 == [d EXCEPT !.known_tags = @ \cup {new_tag}]
             found == FindCategory(d1, target_category_id)
             fallback == FindUncategorized(d1)
             d2 == IF found = 0 /\ fallback = 0
                   THEN [d1 EXCEPT !.tag_categories =
                           <<[id |-> FreshId(CatIds(d1)), name |-> nUncategorized,
                              tags |-> <<>>]>> \o @]
                   ELSE d1
             target == AddGlobalTagTarget(d1, target_category_id)
             d3 == [d2 EXCEPT !.tag_categories[target] = WithTag(@, new_tag)]
         IN Answer(CleanupOrphanTags(d3), "cleanup")

AddGlobalTag ==
    \E new_tag \in TagNames, target_category_id \in CategoryIdInputs :
        LET answer == AddGlobalTagOn(doc, new_tag, target_category_id)
        IN /\ doc' = answer.doc
           /\ disk' = Persisted(answer, disk)
           /\ outcome' = answer.outcome
           /\ UNCHANGED <<call, user_config>>

\* [t for t in l if t.lower() != lower_tag]
RECURSIVE WithoutLower(_, _)
WithoutLower(l, lower_tag) ==
    IF l = <<>> THEN <<>>
    ELSE IF Lower(l[1]) = lower_tag THEN WithoutLower(Tail(l), lower_tag)
    ELSE <<l[1]>> \o WithoutLower(Tail(l), lower_tag)

\* the tag names the delete and rename forms carry; 'a & B' is an AND tag as
\* add_and_tag writes it
TagTargets == TagNames \cup {tAndAB, tAll, <<"a", " ", "&", " ", "B">>}

\* the singular tag deletion that forgets the notes
DeleteSingularTagOffSections(d, tag_to_delete) ==
    LET lower_tag == Lower(tag_to_delete)
        d1 == [d EXCEPT
                 !.known_tags = @ \ {tag_to_delete},
                 !.sections =
                    [i \in 1..Len(@) |->
                       [@[i] EXCEPT !.tags = WithoutLower(@, lower_tag)]],
                 !.tag_categories =
                    [i \in 1..Len(@) |->
                       [@[i] EXCEPT !.tags =
                          SortedLower(WithoutLower(@, lower_tag))]]]
    IN CleanupOrphanTags(d1)

\* views.delete_global_tag, "Handle singular tag deletion": the tag leaves
\* known_tags, all content and all categories, then the cleanup runs
DeleteSingularTag(d, tag_to_delete) ==
    LET lower_tag == Lower(tag_to_delete)
        d1 == [d EXCEPT
                 !.known_tags = @ \ {tag_to_delete},
                 !.sections =
                    [i \in 1..Len(@) |->
                       [@[i] EXCEPT
                          !.tags = WithoutLower(@, lower_tag),
                          !.notes = [j \in 1..Len(@) |->
                                       [@[j] EXCEPT !.tags =
                                          WithoutLower(@, lower_tag)]]]],
                 !.tag_categories =
                    [i \in 1..Len(@) |->
                       [@[i] EXCEPT !.tags =
                          SortedLower(WithoutLower(@, lower_tag))]]]
    IN CleanupOrphanTags(d1)

\* delete_global_tag without its test for the reserved tag
DeleteGlobalTagOnAny(d, tag_to_delete) ==
    IF tag_to_delete = <<>> THEN Answer(d, "ignored")
    ELSE IF tag_to_delete \in Range(d.and_tags) THEN Answer(d, "rejected")
    ELSE IF ~d.known_is_set THEN Answer(d, "raised")
    ELSE Answer(DeleteSingularTag(d, tag_to_delete), "cleanup")

\* views.delete_global_tag; the form carries tag_to_delete only, so the branch
\* into delete_and_tag finds no and_tag_to_delete and reports the failure
DeleteGlobalTagOn(d, tag_to_delete) ==
    IF tag_to_delete = <<>> THEN Answer(d, "ignored")
    ELSE IF Lower(tag_to_delete) = tAllLower THEN Answer(d, "rejected")
    ELSE IF tag_to_delete \in Range(d.and_tags) THEN Answer(d, "rejected")
    ELSE IF ~d.known_is_set THEN Answer(d, "raised")
    ELSE Answer(DeleteSingularTag(d, tag_to_delete), "cleanup")

DeleteGlobalTag ==
    \E tag_to_delete \in TagTargets :
        LET answer == DeleteGlobalTagOn(doc, tag_to_delete)
        IN /\ doc' = answer.doc
           /\ disk' = Persisted(answer, disk)
           /\ outcome' = answer.outcome
           /\ UNCHANGED <<call, user_config>>

\* views.move_tag
MoveTag ==
    \E tag_name \in {<<>>, tA, tB},
       source_category_id \in (1..MaxCats) \cup {ID_ALL_TAGS},
       target_category_id \in (1..MaxCats) \cup {ID_NONE},
       target_tag_name \in {<<>>, tB} :
        IF tag_name = <<>> THEN Rejected(doc)
        ELSE IF target_tag_name # <<>> /\ target_tag_name # tag_name /\ ~doc.known_is_set
        THEN Raised(doc)
        ELSE LET new_and_tag_name ==
                     CombineTagsToAnd(ParseAndTagComponents(tag_name) \o
                                      ParseAndTagComponents(target_tag_name))
                 d1 == IF target_tag_name # <<>> /\ target_tag_name # tag_name
                       THEN [doc EXCEPT !.known_tags = @ \cup {new_and_tag_name}]
                       ELSE doc
                 source == IF source_category_id = ID_ALL_TAGS THEN 0
                           ELSE FindCategory(d1, source_category_id)
                 target == FindCategory(d1, target_category_id)
                 d2 == IF source # 0 /\ tag_name \in Range(d1.tag_categories[source].tags)
                       THEN [d1 EXCEPT !.tag_categories[source].tags =
                               SortedLower(RemoveFirst(@, tag_name))]
                       ELSE d1
             IN IF target = 0 THEN Rejected(d1)
                ELSE Saved([d2 EXCEPT !.tag_categories[target] = WithTag(@, tag_name)])

\* the category names a category form submits; <<>> is an empty field
CategoryNames == {<<>>, nP, nUncategorizedLower}

\* views.add_category
AddCategory ==
    \E category_name \in CategoryNames :
        IF category_name = <<>> THEN Rejected(doc)
        ELSE IF \E i \in 1..Len(doc.tag_categories) :
                   Lower(doc.tag_categories[i].name) = Lower(category_name)
        THEN Rejected(doc)
        ELSE /\ Len(doc.tag_categories) < MaxCats
             /\ Saved([doc EXCEPT !.tag_categories =
                         Append(@, [id |-> FreshId(CatIds(doc)), name |-> category_name,
                                    tags |-> <<>>])])

\* tag_manager.rename_category_and_associated_tags: no section or note of the
\* model carries a category's name as a tag, so there is no content to update
RenameCategoryAndAssociatedTags(d, old_name, new_name) == d

\* views.rename_category
RenameCategory ==
    \E category_id \in CategoryIdInputs, new_name \in CategoryNames :
        LET found == FindCategory(doc, category_id)
            cats == doc.tag_categories
        IN IF found = 0 THEN Rejected(doc)
           ELSE IF new_name = <<>> THEN Rejected(doc)
           ELSE IF \E i \in 1..Len(cats) :
                      Lower(cats[i].name) = Lower(new_name) /\ cats[i].id # category_id
           THEN Rejected(doc)
           ELSE IF Lower(cats[found].name) = nUncategorizedLower
                   /\ Lower(new_name) # nUncategorizedLower
           THEN Rejected(doc)
           ELSE Saved([RenameCategoryAndAssociatedTags(doc, cats[found].name, new_name)
                         EXCEPT !.tag_categories[found].name = new_name])

\* tag_manager.delete_category_and_associated_tags: the named category is removed,
\* and each of its tags leaves known_tags only if no other category holds it and
\* no section or note uses it
DeleteCategoryAndAssociatedTags(d, name) ==
    LET cats == d.tag_categories
        gone == {i \in 1..Len(cats) : cats[i].name = name}
        kept == {i \in 1..Len(cats) : cats[i].name # name}
        its_tags == UNION {Range(cats[i].tags) : i \in gone}
        elsewhere == UNION {Range(cats[i].tags) : i \in kept}
    IN [d EXCEPT !.tag_categories = SelectSeq(@, LAMBDA c : c.name # name),
                 !.known_tags = @ \ {t \in its_tags :
                                       t \notin elsewhere /\ t \notin ContentTags(d)}]

\* delete_category that creates a missing Uncategorized but moves no tag
TagsLeftBehind(d, category_to_delete) ==
    IF FindUncategorized(d) = 0
    THEN [d EXCEPT !.tag_categories =
            <<[id |-> FreshId(CatIds(d)), name |-> nUncategorized, tags |-> <<>>]>> \o @]
    ELSE d

\* views.delete_category: the tags of the category move to Uncategorized,
\* which is created first if it is missing
TagsMovedToUncategorized(d, category_to_delete) ==
    LET d1 == IF FindUncategorized(d) = 0
              THEN [d EXCEPT !.tag_categories =
                      <<[id |-> FreshId(CatIds(d)), name |-> nUncategorized,
                         tags |-> <<>>]>> \o @]
              ELSE d
        uncat == FindUncategorized(d1)
    IN IF category_to_delete.tags # <<>>
       THEN [d1 EXCEPT !.tag_categories[uncat].tags =
               SortedLower(DedupKeepOrder(@ \o category_to_delete.tags))]
       ELSE d1

\* views.delete_category
DeleteCategoryOn(d, category_id) ==
    LET found == FindCategory(d, category_id)
    IN IF found = 0 THEN Answer(d, "rejected")
       ELSE IF Lower(d.tag_categories[found].name) = nUncategorizedLower
       THEN Answer(d, "rejected")
       ELSE LET category_to_delete == d.tag_categories[found]
                d2 == TagsMovedToUncategorized(d, category_to_delete)
                d3 == DeleteCategoryAndAssociatedTags(d2, category_to_delete.name)
                d4 == [d3 EXCEPT !.tag_categories =
                         SelectSeq(@, LAMBDA c : c.id # category_id)]
            IN Answer(CleanupOrphanTags(d4), "cleanup")

DeleteCategory ==
    \E category_id \in CategoryIdInputs :
        LET answer == DeleteCategoryOn(doc, category_id)
        IN /\ doc' = answer.doc
           /\ disk' = Persisted(answer, disk)
           /\ outcome' = answer.outcome
           /\ UNCHANGED <<call, user_config>>

\* tag_manager.remove_and_tag: the list without and_tag
RemoveAndTag(d, and_tag) == [d EXCEPT !.and_tags = RemoveFirst(@, and_tag)]

\* tag_manager.add_and_tag
AddAndTagToList(d, and_tag) ==
    IF and_tag \in Range(d.and_tags) THEN d
    ELSE [d EXCEPT !.and_tags = SortedSetLower(Range(Append(@, and_tag)))]

\* tag_manager.update_and_tag, when old_tag is in and_tags
UpdateAndTagInList(d, old_tag, new_tag) ==
    LET d1 == AddAndTagToList(RemoveAndTag(d, old_tag), new_tag)
    IN [d1 EXCEPT !.and_tags = SortedSetLower(Range(@))]

\* the component lists the AND-tag form submits (andTagComponent_0, _1, ...)
ComponentInputs == {<<tA>>, <<tA, tB>>, <<tB, tA>>, <<tA, tA>>}

\* views.add_and_tag: and_tags is rewritten in the state file, not in memory
AddAndTag ==
    \E components \in ComponentInputs :
        IF Len(components) < 2
        THEN Rejected(doc)
        ELSE LET and_tag == Join(components, <<" ", "&", " ">>)
             IN /\ Len(disk.and_tags) < MaxAndTags
                /\ disk' = IF and_tag \in Range(disk.and_tags) THEN disk
                           ELSE [disk EXCEPT !.and_tags = Append(@, and_tag)]
                /\ doc' = doc
                /\ outcome' = "saved"
                /\ UNCHANGED <<call, user_config>>
    /\ UNCHANGED <<call, user_config>>

\* [comp.strip() for comp in parts if comp.strip()]
RECURSIVE StripNonEmpty(_)
StripNonEmpty(parts) ==
    IF parts = <<>> THEN <<>>
    ELSE IF Strip(parts[1]) = <<>> THEN StripNonEmpty(Tail(parts))
    ELSE <<Strip(parts[1])>> \o StripNonEmpty(Tail(parts))

\* the AND tags a form names: 'a & B' as add_and_tag writes it, 'a&B' canonical
AndTagNames == {Join(<<tA, tB>>, <<" ", "&", " ">>), tAndAB}

\* the new_tag fields of the update form: components by comma (two tags, one
\* tag twice), one tag, none
NewAndTagInputs == {<<"a", ",", "B">>, <<"a", ",", "a">>, tA, <<>>}

\* views.update_and_tag
UpdateAndTagOn(d, old_tag, new_tag_field) ==
    LET new_tag_components == Strip(new_tag_field)
        components ==
            IF Contains(new_tag_components, <<",">>)
            THEN StripNonEmpty(Split(new_tag_components, <<",">>))
            ELSE ParseAndTagComponents(new_tag_components)
        new_tag == CombineTagsToAnd(components)
    IN IF old_tag = <<>> \/ new_tag_components = <<>> THEN Answer(d, "rejected")
       ELSE IF Len(components) < 2 THEN Answer(d, "rejected")
       ELSE IF new_tag \in GetAndTags(d) \ {old_tag} THEN Answer(d, "rejected")
       ELSE IF old_tag \in Range(d.and_tags)
            THEN Answer(UpdateAndTagInList(d, old_tag, new_tag), "saved")
            ELSE Answer(d, "rejected")

UpdateAndTag ==
    \E old_tag \in AndTagNames \cup {<<>>}, new_tag_field \in NewAndTagInputs :
        LET answer == UpdateAndTagOn(doc, old_tag, new_tag_field)
        IN /\ doc' = answer.doc
           /\ disk' = Persisted(answer, disk)
           /\ outcome' = answer.outcome
           /\ UNCHANGED <<call, user_config>>

\* views.delete_and_tag
DeleteAndTag ==
    \E and_tag \in AndTagNames \cup {<<>>} :
        IF and_tag = <<>> THEN Rejected(doc)
        ELSE IF and_tag \in Range(doc.and_tags)
             THEN Saved(RemoveAndTag(doc, and_tag))
             ELSE Rejected(doc)

\* [new_tag if t.lower() == old_tag_lower else t for t in tags], deduplicated
ReplaceLower(tags, old_tag_lower, new_tag) ==
    DedupKeepOrder([i \in 1..Len(tags) |->
                      IF Lower(tags[i]) = old_tag_lower THEN new_tag ELSE tags[i]])

\* The rename "in every Section tag list, Note tag list, and Category tag
\* list", destination lists deduplicated and categories re-sorted.
ReplaceTagEverywhere(d, old_tag, new_tag) ==
    LET old_tag_lower == Lower(old_tag)
    IN [d EXCEPT
          !.sections =
             [i \in 1..Len(@) |->
                [@[i] EXCEPT
                   !.tags = ReplaceLower(@, old_tag_lower, new_tag),
                   !.notes = [j \in 1..Len(@) |->
                                [@[j] EXCEPT !.tags =
                                   ReplaceLower(@, old_tag_lower, new_tag)]]]],
          !.tag_categories =
             [i \in 1..Len(@) |->
                [@[i] EXCEPT !.tags =
                   SortedLower(ReplaceLower(@, old_tag_lower, new_tag))]]]

\* Is the tag on some section, note or category list (ignoring case)?
FoundAnywhere(d, tag) ==
    Lower(tag) \in {Lower(t) : t \in ContentTags(d) \cup CategoryTags(d)}

\* tag_manager.rename_tag_globally: fails for the reserved tag, for old = new
\* and for a tag found nowhere; known_tags is left to a later reconciliation
TagManagerRenameTagGlobally(d, old_tag, new_tag) ==
    IF Lower(old_tag) = tAllLower \/ old_tag = new_tag \/ ~FoundAnywhere(d, old_tag)
    THEN [doc |-> d, success |-> FALSE]
    ELSE [doc |-> ReplaceTagEverywhere(d, old_tag, new_tag), success |-> TRUE]

\* the components of an AND tag with old_tag (ignoring case) replaced
ComponentsRenamed(and_tag, old_tag, new_tag) ==
    LET components == ParseAndTagComponents(and_tag)
    IN [i \in 1..Len(components) |->
          IF Lower(components[i]) = Lower(old_tag) THEN new_tag ELSE components[i]]

\* the known AND tags whose component set contains old_tag, ignoring case
AffectedAndTags(d, old_tag) ==
    {t \in GetAllKnownTags(d) :
        /\ Contains(t, <<"&">>)
        /\ Lower(old_tag) \in {Lower(c) : c \in Range(ParseAndTagComponents(t))}}

RECURSIVE RenameAndTags(_, _, _, _)
RenameAndTags(d, and_tags, old_tag, new_tag) ==
    IF and_tags = <<>> THEN d
    ELSE RenameAndTags(
           ReplaceTagEverywhere(
             d, and_tags[1],
             CombineTagsToAnd(ComponentsRenamed(and_tags[1], old_tag, new_tag))),
           Tail(and_tags), old_tag, new_tag)

\* tag_manager.smart_rename_tag: every affected AND tag is rebuilt and renamed
\* through content and categories, then the bare tag itself is renamed
SmartRenameTag(d, old_tag, new_tag) ==
    ReplaceTagEverywhere(
      RenameAndTags(d, SortedSetLower(AffectedAndTags(d, old_tag)), old_tag, new_tag),
      old_tag, new_tag)

\* the new names the rename forms carry
NewTagNames == {<<>>, tA, tB}

\* views.rename_global_tag; a manually created AND tag is handed to
\* update_and_tag, which reads the same form fields old_tag and new_tag
RenameGlobalTagOn(d, old_tag, new_tag_field) ==
    LET new_tag == Strip(new_tag_field)
        existing_tags_lower ==
            {Lower(t) : t \in {k \in GetAllKnownTags(d) : Lower(k) # Lower(old_tag)}}
    IN IF old_tag = <<>> \/ new_tag = <<>> \/ Lower(old_tag) = Lower(new_tag)
       THEN Answer(d, "ignored")
       ELSE IF old_tag \in Range(d.and_tags)
       THEN UpdateAndTagOn(d, old_tag, new_tag_field)
       ELSE IF Lower(new_tag) \in existing_tags_lower THEN Answer(d, "rejected")
       ELSE IF Lower(old_tag) = tAllLower THEN Answer(d, "rejected")
       ELSE Answer(CleanupOrphanTags(SmartRenameTag(d, old_tag, new_tag)), "cleanup")

RenameGlobalTag ==
    \E old_tag \in TagTargets, new_tag \in NewTagNames :
        LET answer == RenameGlobalTagOn(doc, old_tag, new_tag)
        IN /\ doc' = answer.doc
           /\ disk' = Persisted(answer, disk)
           /\ outcome' = answer.outcome
           /\ UNCHANGED <<call, user_config>>

\* views.rename_tag_globally: saved on success, no reconciliation of its own
RenameTagGloballyOn(d, old_tag, new_tag) ==
    IF old_tag = <<>> \/ new_tag = <<>> THEN Answer(d, "rejected")
    ELSE LET result == TagManagerRenameTagGlobally(d, old_tag, new_tag)
         IN IF result.success THEN Answer(result.doc, "saved")
            ELSE Answer(d, "rejected")

RenameTagGlobally ==
    \E old_tag \in TagTargets, new_tag \in NewTagNames :
        LET answer == RenameTagGloballyOn(doc, old_tag, new_tag)
        IN /\ doc' = answer.doc
           /\ disk' = Persisted(answer, disk)
           /\ outcome' = answer.outcome
           /\ UNCHANGED <<call, user_config>>

\* [t for t in l if t != tag]
RECURSIVE Without(_, _)
Without(l, tag) ==
    IF l = <<>> THEN <<>>
    ELSE IF l[1] = tag THEN Without(Tail(l), tag)
    ELSE <<l[1]>> \o Without(Tail(l), tag)

\* the tag taken off Sections, Notes, Categories, known_tags and and_tags
RemovedEverywhere(d, tag) ==
    [d EXCEPT
       !.sections =
          [i \in 1..Len(@) |->
             [@[i] EXCEPT
                !.tags = Without(@, tag),
                !.notes = [j \in 1..Len(@) |->
                             [@[j] EXCEPT !.tags = Without(@, tag)]]]],
       !.tag_categories =
          [i \in 1..Len(@) |-> [@[i] EXCEPT !.tags = Without(@, tag)]],
       !.known_tags = @ \ {tag},
       !.and_tags = Without(@, tag)]

\* Is the component still referenced: on content by itself, or as a component
\* of an AND tag that content, a category or and_tags still holds?
ComponentReferenced(d, component) ==
    \/ component \in ContentTags(d)
    \/ \E t \in ContentTags(d) \cup CategoryTags(d) \cup Range(d.and_tags) :
          Contains(t, <<"&">>) /\ component \in Range(ParseAndTagComponents(t))

RECURSIVE DropUnreferenced(_, _)
DropUnreferenced(d, components) ==
    IF components = <<>> THEN d
    ELSE DropUnreferenced(
           IF ComponentReferenced(d, components[1]) THEN d
           ELSE [d EXCEPT
                   !.tag_categories =
                      [i \in 1..Len(@) |->
                         [@[i] EXCEPT !.tags = Without(@, components[1])]],
                   !.known_tags = @ \ {components[1]}],
           Tail(components))

\* tag_manager.remove_tag_globally: fails for the reserved tag; an AND tag
\* takes with it the components left unreferenced, one level deep
TagManagerRemoveTagGlobally(d, tag) ==
    IF Lower(tag) = tAllLower THEN [doc |-> d, success |-> FALSE]
    ELSE LET d1 == RemovedEverywhere(d, tag)
         IN [doc |-> IF Contains(tag, <<"&">>)
                     THEN DropUnreferenced(d1, ParseAndTagComponents(tag))
                     ELSE d1,
             success |-> TRUE]

\* views.remove_tag_globally
RemoveTagGloballyOn(d, tag_to_remove) ==
    IF tag_to_remove = <<>> THEN Answer(d, "rejected")
    ELSE LET result == TagManagerRemoveTagGlobally(d, tag_to_remove)
         IN IF result.success THEN Answer(result.doc, "saved")
            ELSE Answer(d, "rejected")

RemoveTagGlobally ==
    \E tag_to_remove \in TagTargets :
        LET answer == RemoveTagGloballyOn(doc, tag_to_remove)
        IN /\ doc' = answer.doc
           /\ disk' = Persisted(answer, disk)
           /\ outcome' = answer.outcome
           /\ UNCHANGED <<call, user_config>>

\* notes_by_id[nid] of views.reorder_notes: the last note carrying the id
NoteById(notes, nid) ==
    notes[CHOOSE j \in 1..Len(notes) :
              notes[j].id = nid /\ \A k \in (j + 1)..Len(notes) : notes[k].id # nid]

\* the notes named by note_ids, in that order
RECURSIVE NotesInOrder(_, _)
NotesInOrder(notes, note_ids) ==
    IF note_ids = <<>> THEN <<>>
    ELSE IF \E j \in 1..Len(notes) : notes[j].id = note_ids[1]
         THEN <<NoteById(notes, note_ids[1])>> \o NotesInOrder(notes, Tail(note_ids))
         ELSE NotesInOrder(notes, Tail(note_ids))

\* the new note list of views.reorder_notes
ReorderedNotes(notes, note_ids) ==
    NotesInOrder(notes, note_ids) \o SelectSeq(notes, LAMBDA n : n.id \notin Range(note_ids))

\* the note_ids lists a reorder request carries
NoteIdLists == {<<1>>, <<2, 1>>}

\* views.reorder_notes: the state is loaded again before the notes are reordered
ReorderNotesOn(d, f, section_id, note_ids) ==
    IF note_ids = <<>> THEN Answer(d, "rejected")
    ELSE LET d0 == LoadState(f)
         IN IF section_id \in SectionIds(d0)
            THEN Answer([d0 EXCEPT !.sections =
                           [i \in 1..Len(@) |->
                              IF @[i].id = section_id
                              THEN [@[i] EXCEPT !.notes = ReorderedNotes(@, note_ids)]
                              ELSE @[i]]],
                        "saved")
            ELSE Answer(d0, "rejected")

ReorderNotes ==
    \E section_id \in 1..(MaxSections + 1), note_ids \in NoteIdLists :
        LET answer == ReorderNotesOn(doc, disk, section_id, note_ids)
        IN /\ doc' = answer.doc
           /\ disk' = Persisted(answer, disk)
           /\ outcome' = answer.outcome
           /\ UNCHANGED <<call, user_config>>

\* views.import_clear
ImportClear ==
    \E d0 \in {LoadState(disk)} :
        Saved([d0 EXCEPT
                 !.sections = <<>>,
                 !.known_tags = {tAll},
                 !.known_is_set = TRUE,
                 !.tag_categories =
                    <<[id |-> FreshId({}), name |-> nUncategorized,
                       tags |-> <<tAll>>]>>])

\* get_or_create_category of views.import_add
GetOrCreateCategory(cats, cat_name, tags) ==
    IF \E i \in 1..Len(cats) : Lower(cats[i].name) = Lower(cat_name)
    THEN LET i == CHOOSE j \in 1..Len(cats) :
                    /\ Lower(cats[j].name) = Lower(cat_name)
                    /\ \A k \in 1..(j - 1) : Lower(cats[k].name) # Lower(cat_name)
         IN [cats EXCEPT ![i].tags = SortedSetLower(Range(@) \cup Range(tags))]
    ELSE Append(cats, [id |-> FreshId({c.id : c \in Range(cats)}),
                       name |-> cat_name,
                       tags |-> SortedSetLower(Range(tags))])

\* for cat in section.get('categories', []): get_or_create_category(...)
RECURSIVE GetOrCreateAll(_, _)
GetOrCreateAll(cats, incoming) ==
    IF incoming = <<>> THEN cats
    ELSE GetOrCreateAll(GetOrCreateCategory(cats, incoming[1].name, incoming[1].tags),
                        Tail(incoming))

\* merge_categories of views.import_html
RECURSIVE MergeCategories(_, _)
MergeCategories(existing, incoming) ==
    IF incoming = <<>> THEN existing
    ELSE LET name == incoming[1].name
             tags == Range(incoming[1].tags)
             merged ==
                 IF \E i \in 1..Len(existing) : Lower(existing[i].name) = Lower(name)
                 THEN LET i == CHOOSE j \in 1..Len(existing) :
                                 /\ Lower(existing[j].name) = Lower(name)
                                 /\ \A k \in 1..(j - 1) :
                                        Lower(existing[k].name) # Lower(name)
                      IN [existing EXCEPT ![i].tags = SortedSetLower(Range(@) \cup tags)]
                 ELSE Append(existing, [id |-> FreshId({c.id : c \in Range(existing)}),
                                        name |-> name,
                                        tags |-> SortedSetLower(tags)])
         IN MergeCategories(merged, Tail(incoming))

\* the first category whose lower-cased name is 'uncategorized' takes all of
\* `tags` in addition to its own, sorted (import_add, import_html overwrite)
UncategorizedTakes(cats, tags) ==
    LET u == FindUncategorized([tag_categories |-> cats])
    IN IF u = 0 THEN cats
       ELSE [cats EXCEPT ![u].tags = SortedSetLower(Range(@) \cup tags)]

\* the categories a JSON payload attaches: {name, tags}
CategoryPayloads ==
    {<<>>, <<[name |-> nP, tags |-> <<tB>>]>>,
     <<[name |-> nUncategorized, tags |-> <<tB>>]>>}

\* the section of an import_add request
SectionPayloads ==
    {[tags |-> <<tA>>, categories |-> <<>>],
     [tags |-> <<tA>>, categories |-> <<[name |-> nP, tags |-> <<tB>>]>>]}

\* views.import_add
ImportAdd ==
    \E section \in SectionPayloads :
        LET d0 == LoadState(disk)
            cats0 == IF d0.tag_categories = <<>>
                     THEN <<[id |-> FreshId({}), name |-> nUncategorized,
                             tags |-> <<tAll>>]>>
                     ELSE d0.tag_categories
            cats1 == GetOrCreateAll(cats0, section.categories)
            new_section == [id |-> FreshId(SectionIds(d0)), tags |-> section.tags,
                            notes |-> <<>>]
            known1 == d0.known_tags \cup Range(section.tags)
            cats2 == UncategorizedTakes(cats1, known1)
            all_tags == UNION {Range(c.tags) : c \in Range(cats2)}
                            \cup Range(section.tags)
            cats3 == LET u == FindUncategorized([tag_categories |-> cats2])
                     IN IF u = 0 THEN cats2
                        ELSE [cats2 EXCEPT ![u].tags = SortedSetLower(all_tags)]
        IN /\ Len(d0.sections) < MaxSections
           /\ Len(cats1) <= MaxCats
           /\ Saved([d0 EXCEPT !.sections = Append(@, new_section),
                               !.known_tags = all_tags,
                               !.known_is_set = FALSE,
                               !.tag_categories = cats3])

\* what content_processor._parse_imported_html returns for the pasted HTML:
\* '<h1>T [a]</h1>', '<h1>T [B][a]</h1>', and a document without any h1
ParsedImports ==
    {[sections |-> <<[tags |-> <<tA>>]>>, new_tags |-> {tA}],
     [sections |-> <<[tags |-> <<tB, tA>>]>>, new_tags |-> {tA, tB}],
     [sections |-> <<>>, new_tags |-> {}]}

\* assign_category_tags of views.import_html, for sections without categories
AssignCategoryTags(sections, first_id) ==
    [i \in 1..Len(sections) |->
        [id |-> first_id + i - 1,
         tags |-> SortedSetLower(Range(sections[i].tags)),
         notes |-> <<>>]]

\* views.import_html; the parser runs sync_known_tags and cleanup_orphan_tags on
\* the live document before the handler looks at what it returned
ImportHtml ==
    \E parsed \in ParsedImports, frontend_categories \in CategoryPayloads,
       import_mode \in {"overwrite", "aggregate"} :
        LET d1 == CleanupOrphanTags(SyncKnownTags(doc, ListOfSet(parsed.new_tags)))
            all_categories == MergeCategories(<<>>, frontend_categories)
        IN IF parsed.sections = <<>> THEN Rejected(d1)
           ELSE IF import_mode = "overwrite"
           THEN LET known == parsed.new_tags \cup {tAll}
                IN SavedAfterCleanup(CleanupOrphanTags(
                       [d1 EXCEPT !.sections = AssignCategoryTags(parsed.sections,
                                                                  FreshId({})),
                                  !.known_tags = known,
                                  !.known_is_set = TRUE,
                                  !.tag_categories =
                                      UncategorizedTakes(all_categories, known)]))
           ELSE LET tag_cats == MergeCategories(d1.tag_categories, all_categories)
                    d2 == [d1 EXCEPT
                             !.tag_categories = tag_cats,
                             !.sections = @ \o AssignCategoryTags(parsed.sections,
                                                     FreshId(SectionIds(d1)))]
                IN /\ Len(d2.sections) <= MaxSections
                   /\ Len(tag_cats) <= MaxCats
                   /\ IF d1.known_is_set
                      THEN SavedAfterCleanup(CleanupOrphanTags(SyncKnownTags(
                               [d2 EXCEPT !.known_tags = @ \cup parsed.new_tags],
                               ListOfSet(parsed.new_tags))))
                      ELSE Raised(d2)

(***************************************************************************)
(* The AND-tag helpers as functions of their argument: one call of          *)
(* combine_tags_to_and followed by parse_and_tag_components on its result.  *)
(***************************************************************************)
\* tags without '&' and without surrounding whitespace
CanonTags == {<<"a">>, <<"A">>, <<"B">>, <<"b", " ", "c">>}

\* the non-empty tag lists of at most MaxLen entries
TagLists == UNION {[1..n -> CanonTags] : n \in 1..MaxLen}

\* the orders in which list(set(tags)) may enumerate the distinct tags
Orderings(S) == {o \in [1..Cardinality(S) -> S] : Range(o) = S}

\* and_tag = combine_tags_to_and(tags)
CombineCall ==
    \E tags \in TagLists : \E order \in Orderings(Range(tags)) :
        /\ call' = [stage |-> "combined", tags |-> tags,
                    and_tag |-> CombineInOrder(order), components |-> <<>>]
        /\ UNCHANGED <<doc, disk, outcome, user_config>>

\* components = parse_and_tag_components(and_tag)
ParseCall ==
    /\ call.stage = "combined"
    /\ call' = [call EXCEPT !.stage = "parsed",
                            !.components = ParseAndTagComponents(call.and_tag)]
    /\ UNCHANGED <<doc, disk, outcome, user_config>>

NextCanon == CombineCall \/ ParseCall

SpecCanon == Init /\ [][NextCanon]_vars

(***************************************************************************)
(* Specifications of the request handlers.                                 *)
(***************************************************************************)
\* sections, notes, tags and categories
Next ==
    \/ Index
    \/ AddSection
    \/ DeleteSection
    \/ AddNote
    \/ UpdateSection
    \/ UpdateNote
    \/ DeleteNote
    \/ AddGlobalTag
    \/ DeleteGlobalTag
    \/ MoveTag
    \/ AddCategory
    \/ RenameCategory
    \/ DeleteCategory

Spec == Init /\ [][Next]_vars

\* everything that writes a category's tag list, the imports included
NextImport ==
    \/ Index
    \/ AddSection
    \/ DeleteSection
    \/ AddGlobalTag
    \/ DeleteGlobalTag
    \/ MoveTag
    \/ AddCategory
    \/ RenameCategory
    \/ DeleteCategory
    \/ ImportClear
    \/ ImportAdd
    \/ ImportHtml

SpecImport == Init /\ [][NextImport]_vars

\* the manual AND tags, with the handlers that read the state file again
NextAndTags ==
    \/ Index
    \/ AddSection
    \/ AddNote
    \/ DeleteGlobalTag
    \/ AddAndTag
    \/ UpdateAndTag
    \/ DeleteAndTag
    \/ ReorderNotes

SpecAndTags == Init /\ [][NextAndTags]_vars

\* the handlers that rename and delete tags and categories
NextTags ==
    \/ Index
    \/ AddSection
    \/ AddNote
    \/ AddGlobalTag
    \/ MoveTag
    \/ AddCategory
    \/ DeleteCategory
    \/ DeleteGlobalTag
    \/ RenameGlobalTag
    \/ RenameTagGlobally
    \/ RemoveTagGlobally

SpecTags == Init /\ [][NextTags]_vars

\* the handlers that delete tags, with the manual AND tags
NextDelete ==
    \/ Index
    \/ AddSection
    \/ AddNote
    \/ AddGlobalTag
    \/ AddCategory
    \/ AddAndTag
    \/ ReorderNotes
    \/ DeleteGlobalTag
    \/ RemoveTagGlobally

SpecDelete == Init /\ [][NextDelete]_vars

(***************************************************************************)
(* Content filtering (content_processor.get_filtered_sections).  A call    *)
(* ends in a returned list or in an exception; the returned list is either *)
(* the Document's own sections list (live) or a list of deep copies.       *)
(***************************************************************************)

\* tag_manager.should_show_content_for_filter(content_tags, filter_tag)
ShouldShowContentForFilter(content_tags, filter_tag) ==
    IF filter_tag = <<>> THEN TRUE
    ELSE IF Contains(filter_tag, <<"&">>)
    THEN \A t \in Range(StripEach(Split(filter_tag, <<"&">>))) : t \in content_tags
    ELSE filter_tag \in content_tags

\* content_processor._matches_filters: the loop calls
\* should_show_content_for_filter(content_tags, content_categories, filter_tag),
\* three arguments for a function of two, so the first filter raises TypeError;
\* with no filter the loop is skipped and the answer is False
MatchesFilters(content_tags, active_filters, content_categories) ==
    IF active_filters = <<>> THEN [raised |-> FALSE, value |-> FALSE]
    ELSE [raised |-> TRUE, value |-> FALSE]

\* {t.lower() for t in tags}
LowerTags(tags) == {Lower(t) : t \in Range(tags)}

\* get_filtered_sections, the loop over the notes of a copied section; the
\* notes here have no attached categories
RECURSIVE VisibleNotes(_, _)
VisibleNotes(notes, active_filters) ==
    IF notes = <<>> THEN [raised |-> FALSE, notes |-> <<>>]
    ELSE LET note == notes[1]
             all_note_tags == LowerTags(note.tags)
             shown == IF tAllLower \in all_note_tags
                      THEN [raised |-> FALSE, value |-> TRUE]
                      ELSE MatchesFilters(all_note_tags, active_filters, <<>>)
             rest == VisibleNotes(Tail(notes), active_filters)
         IN IF shown.raised \/ rest.raised THEN [raised |-> TRUE, notes |-> <<>>]
            ELSE [raised |-> FALSE,
                  notes |-> (IF shown.value THEN <<note>> ELSE <<>>) \o rest.notes]

\* get_filtered_sections, the loop over the sections
RECURSIVE FilteredFrom(_, _)
FilteredFrom(sections, active_filters) ==
    IF sections = <<>> THEN [raised |-> FALSE, sections |-> <<>>]
    ELSE LET section == sections[1]
             section_tags == LowerTags(section.tags)
             section_matches == MatchesFilters(section_tags, active_filters, <<>>)
             visible == VisibleNotes(section.notes, active_filters)
             rest == FilteredFrom(Tail(sections), active_filters)
         IN IF tAllLower \in section_tags
            THEN IF rest.raised THEN rest
                 ELSE [raised |-> FALSE, sections |-> <<section>> \o rest.sections]
            ELSE IF section_matches.raised \/ visible.raised \/ rest.raised
            THEN [raised |-> TRUE, sections |-> <<>>]
            ELSE IF section_matches.value \/ visible.notes # <<>>
            THEN [raised |-> FALSE,
                  sections |-> <<[section EXCEPT !.notes = visible.notes]>>
                               \o rest.sections]
            ELSE rest

\* content_processor.get_filtered_sections
GetFilteredSections(d, active_filters) ==
    IF active_filters = <<>>
    THEN [raised |-> FALSE, live |-> TRUE, sections |-> d.sections]
    ELSE LET filtered == FilteredFrom(d.sections, active_filters)
         IN [raised |-> filtered.raised, live |-> FALSE,
             sections |-> filtered.sections]

MaxFilterSections == 2
MaxFilterNotes == 2

\* the tag lists of the sections and of the notes of the filtered Documents
FilterSectionTags == {<<tA>>, <<tB>>, <<tAll>>}
FilterNoteTags == {<<>>, <<tB>>, <<tAllLower>>}

\* a section is given by its tag list and the tag lists of its notes
SectionShapes ==
    FilterSectionTags \X UNION {[1..n -> FilterNoteTags] : n \in 0..MaxFilterNotes}

\* the sections add_section and add_note build, ids in order of creation
BuildSections(shapes) ==
    [i \in 1..Len(shapes) |->
       [id |-> i, tags |-> shapes[i][1],
        notes |-> [j \in 1..Len(shapes[i][2]) |->
                     [id |-> MaxFilterNotes * (i - 1) + j, tags |-> shapes[i][2][j]]]]]

FilterDocs ==
    {[DefaultState EXCEPT !.sections = BuildSections(shapes)] :
       shapes \in UNION {[1..n -> SectionShapes] : n \in 0..MaxFilterSections}}

\* the filter lists of the request (?filter=...)
FilterInputs == {<<>>, <<tA>>, <<tB>>, <<tAndAB>>, <<tA, tB>>}

InitFilter ==
    /\ doc \in FilterDocs
    /\ disk = SaveState(doc)
    /\ outcome = "saved"
    /\ call = NoCall
    /\ user_config = NoUserConfig

\* sections_to_display = get_filtered_sections(active_filters)
FilterCall ==
    \E active_filters \in FilterInputs :
        /\ call' = [stage |-> "filtered", active_filters |-> active_filters,
                    result |-> GetFilteredSections(doc, active_filters)]
        /\ UNCHANGED <<doc, disk, outcome, user_config>>

\* the caller removes the first section from the list it was given; a live
\* list is the Document's own sections list
RemoveReturnedSection ==
    /\ call.stage = "filtered"
    /\ ~call.result.raised
    /\ call.result.sections # <<>>
    /\ call' = [call EXCEPT !.stage = "mutated", !.result.sections = Tail(@)]
    /\ doc' = IF call.result.live THEN [doc EXCEPT !.sections = Tail(@)] ELSE doc
    /\ UNCHANGED <<disk, outcome, user_config>>

NextFilter == FilterCall \/ RemoveReturnedSection

SpecFilter == InitFilter /\ [][NextFilter]_vars

\* the tag lists of a section or note, and the filter tags, of the match calls
MatchContents == {<<>>, <<tA>>, <<tB>>, <<tA, tB>>, <<tB, tA>>, <<tAll>>, <<tA, tAll>>}
MatchFilterTags == {tA, tB, <<"b">>, <<"A">>, tAndAB, <<"B", "&", "a">>,
                    <<"a", " ", "&", " ", "B">>, <<"a", "&", "b">>}
MatchFilterLists ==
    {<<f>> : f \in MatchFilterTags} \cup {<<>>, <<tA, tB>>, <<tB, tAndAB>>}

\* _matches_filters(tags, active_filters, categories), tags lower-cased by the
\* caller as get_filtered_sections does
MatchCall ==
    \E tags \in MatchContents, active_filters \in MatchFilterLists :
        /\ call' = [stage |-> "matched", tags |-> tags,
                    active_filters |-> active_filters,
                    result |-> MatchesFilters(LowerTags(tags), active_filters, <<>>)]
        /\ UNCHANGED <<doc, disk, outcome, user_config>>

\* should_show_content_for_filter(content_tags, filter_tag) on the same tags
ShouldShowCall ==
    \E tags \in MatchContents, filter_tag \in MatchFilterTags :
        /\ call' = [stage |-> "shown", tags |-> tags, filter_tag |-> filter_tag,
                    result |-> ShouldShowContentForFilter(LowerTags(tags), filter_tag)]
        /\ UNCHANGED <<doc, disk, outcome, user_config>>

NextMatch == MatchCall \/ ShouldShowCall

SpecMatch == Init /\ [][NextMatch]_vars

(***************************************************************************)
(* Properties.                                                             *)
(***************************************************************************)
\* the request changed the Document and saved it
Completed == outcome \in {"saved", "cleanup", "index"}

\* C1: after every mutating handler has returned, every tag other than 'All'
\* that is on a section, on a note or in a category's tag list is a member of
\* known_tags
C1_ReferencedTagsAreKnown ==
    outcome \in {"saved", "cleanup"} =>
        (ContentTags(doc) \cup CategoryTags(doc)) \ {tAll} \subseteq doc.known_tags

\* the components of the AND tags registered in and_tags
AndTagComponents(d) ==
    UNION {Range(ParseAndTagComponents(d.and_tags[i])) : i \in 1..Len(d.and_tags)}

\* no tag of known_tags is an orphan
OrphanFree(d) ==
    \A t \in d.known_tags :
        \/ t \in ContentTags(d)
        \/ t \in NonUncategorizedTags(d)
        \/ t \in AndTagComponents(d)

\* C2: after cleanup_orphan_tags() has returned, every tag of known_tags is used
\* on a section or note, or is in a category other than Uncategorized, or is a
\* component of a registered AND tag; this holds of the Document a handler leaves
\* when it ends with the cleanup, and of the cleanup applied to any Document
C2_NoOrphanAfterCleanup ==
    /\ outcome = "cleanup" => OrphanFree(doc)
    /\ OrphanFree(CleanupOrphanTags(doc))

\* a handler has ended with the cleanup, and a known tag survived it that is on
\* no section or note: a category other than Uncategorized holds it
C2_Witness ==
    /\ outcome = "cleanup"
    /\ \E t \in doc.known_tags : t \notin ContentTags(doc)

\* C3: in every state reached after a mutating operation has completed
\* (create_default_state, import_clear and import_html included), the reserved
\* tag 'All' is not a member of known_tags
C3_AllNeverKnown == Completed => tAll \notin doc.known_tags

\* the number of categories named 'Uncategorized', ignoring case
UncategorizedCount(d) ==
    Cardinality({i \in 1..Len(d.tag_categories) : IsUncategorized(d.tag_categories[i])})

\* C4: after any sequence of operations on a created or loaded document,
\* tag_categories holds exactly one category named 'Uncategorized' (ignoring
\* case); rename_category and delete_category never take it away
C4_ExactlyOneUncategorized == UncategorizedCount(doc) = 1

\* C5: an operation that reports failure leaves sections, known_tags,
\* tag_categories and and_tags exactly as they were before the call
C5_FailedOperationsAreNoOps ==
    [][outcome' = "rejected" => SaveState(doc') = SaveState(doc)]_vars

\* what the documentation of sync_known_tags says of its result r on Document d
SyncedAsDocumented(d, new_tags, r) ==
    /\ r.known_tags =
           (ContentTags(d) \cup CategoryTags(d) \cup Range(new_tags)) \ {tAll}
    /\ \A t \in r.known_tags \ NonUncategorizedTags(r) :
           /\ FindUncategorized(r) # 0
           /\ t \in Range(r.tag_categories[FindUncategorized(r)].tags)
    /\ \A i \in 1..Len(r.tag_categories) : IsSortedLower(r.tag_categories[i].tags)

\* C6: sync_known_tags(new_tags) sets known_tags to the tags on sections and
\* notes, the tags of all categories and new_tags, without 'All'; puts every tag
\* that no category other than Uncategorized holds into Uncategorized; and leaves
\* every category's tag list sorted ignoring case
C6_SyncRecomputesKnownTags ==
    \A new_tags \in TagInputs :
        SyncedAsDocumented(doc, new_tags, SyncKnownTags(doc, new_tags))

\* C7: for every Document, a second sync_known_tags() right after a first call
\* changes neither known_tags nor any category's tag list, whether the first
\* call was given new tags or none and whether the second repeats them or not
C7_SyncIsIdempotent ==
    \A new_tags \in TagInputs : \A again \in {<<>>, new_tags} :
        LET once == SyncKnownTags(doc, new_tags)
            twice == SyncKnownTags(once, again)
        IN /\ twice.known_tags = once.known_tags
           /\ twice.tag_categories = once.tag_categories

\* the Document has a section, and a first sync_known_tags call with a new tag
\* changes it
C7_Witness ==
    /\ doc.sections # <<>>
    /\ SyncKnownTags(doc, <<tB>>) # doc

\* C8: after cleanup_orphan_tags(), and so after every handler that ends with
\* it, the tag list of Uncategorized is exactly the set of known tags that are
\* in no other category's tag list
C8_UncategorizedHoldsTheRest ==
    outcome = "cleanup" =>
        /\ FindUncategorized(doc) # 0
        /\ Range(doc.tag_categories[FindUncategorized(doc)].tags) =
               doc.known_tags \ NonUncategorizedTags(doc)

\* C9: after every mutating operation has returned, every category's tag list
\* is free of duplicates and sorted ignoring case
C9_CategoryTagsSortedUnique ==
    Completed =>
        \A i \in 1..Len(doc.tag_categories) :
            /\ NoDuplicates(doc.tag_categories[i].tags)
            /\ IsSortedLower(doc.tag_categories[i].tags)

\* a mutating operation has left a category with two tags, the lower-case one
\* before the upper-case one
C9_Witness ==
    /\ Completed
    /\ \E i \in 1..Len(doc.tag_categories) : doc.tag_categories[i].tags = <<tA, tB>>

\* C10: parse_and_tag_components(combine_tags_to_and(T)) is the list of the
\* distinct elements of T sorted ignoring case, and combine_tags_to_and gives
\* the same string for two lists with the same elements (every permutation and
\* repetition of T)
C10_AndTagIsCanonical ==
    [][/\ call'.stage = "parsed" =>
            /\ Range(call'.components) = Range(call'.tags)
            /\ NoDuplicates(call'.components)
            /\ IsSortedLower(call'.components)
       /\ (call.stage # "none" /\ call'.stage = "combined"
           /\ Range(call'.tags) = Range(call.tags)) =>
            call'.and_tag = call.and_tag]_vars

\* The component set of a stored AND tag, as parse_and_tag_components reads it.
ComponentSet(and_tag) == Range(ParseAndTagComponents(and_tag))

\* C11: after any sequence of add_and_tag, update_and_tag and delete_and_tag
\* requests, and_tags (in the Document and in the state file) never holds two
\* entries with equal component sets.
C11_NoTwoEntriesWithEqualComponents ==
    \A l \in {doc.and_tags, disk.and_tags} :
        \A i, j \in 1..Len(l) :
            i # j => ComponentSet(l[i]) # ComponentSet(l[j])

\* C12: every entry stored in and_tags by add_and_tag or update_and_tag has at
\* least 2 distinct components.
C12_EntriesHaveTwoDistinctComponents ==
    \A l \in {doc.and_tags, disk.and_tags} :
        \A i \in 1..Len(l) : Cardinality(ComponentSet(l[i])) >= 2

DocumentedMatch(tags, filter_tag) ==
    IF Contains(filter_tag, <<"&">>)
    THEN \A c \in Range(ParseAndTagComponents(filter_tag)) : Lower(c) \in LowerTags(tags)
    ELSE Lower(filter_tag) \in LowerTags(tags)

MatchesSome(tags, active_filters) ==
    \E i \in 1..Len(active_filters) : DocumentedMatch(tags, active_filters[i])

\* The visible notes of a section, in their original order.
DocumentedVisibleNotes(section, active_filters) ==
    LET Visible(note) == \/ tAllLower \in LowerTags(note.tags)
                         \/ MatchesSome(note.tags, active_filters)
    IN SelectSeq(section.notes, Visible)

\* C14: for a non-empty active_filters list, get_filtered_sections returns a
\* section without an 'all' tag exactly when the section's own tags match some
\* filter or one of its notes is visible, and the returned section's notes are
\* exactly its visible notes in their original order.
C14_FilteredSectionsAsDocumented ==
    (call.stage = "filtered" /\ call.active_filters # <<>>) =>
        \A i \in 1..Len(doc.sections) :
            LET section == doc.sections[i]
                visible == DocumentedVisibleNotes(section, call.active_filters)
                returned == {r \in Range(call.result.sections) : r.id = section.id}
            IN tAllLower \notin LowerTags(section.tags) =>
                 /\ (returned # {}) <=>
                       (MatchesSome(section.tags, call.active_filters) \/ visible # <<>>)
                 /\ \A r \in returned : r.notes = visible

\* C15: a plain filter matches content iff it equals one of the content's tags
\* ignoring case, an AND filter iff every parsed component is among them, and
\* content matches the active filters iff it matches at least one of them.
C15_MatchAsDocumented ==
    /\ call.stage = "shown" =>
          (call.result <=> DocumentedMatch(call.tags, call.filter_tag))
    /\ call.stage = "matched" =>
          /\ ~call.result.raised
          /\ call.result.value <=> MatchesSome(call.tags, call.active_filters)

\* C16: for a non-empty active_filters list, every section whose tags contain
\* 'all' in any letter case is returned with all of its notes.
C16_AllSectionsAlwaysReturned ==
    (call.stage = "filtered" /\ call.active_filters # <<>>) =>
        \A i \in 1..Len(doc.sections) :
            tAllLower \in LowerTags(doc.sections[i].tags) =>
                \E k \in 1..Len(call.result.sections) :
                    call.result.sections[k] = doc.sections[i]

\* C17: for every active_filters value, the empty list included, neither
\* computing the result nor mutating it (removing a returned section) changes
\* the Document.
C17_ResultIsNotTheDocument ==
    [][call'.stage \in {"filtered", "mutated"} => doc' = doc]_vars

\* Is the tag on some section, note or category tag list, as written?
Present(d, tag) == tag \in ContentTags(d) \cup CategoryTags(d)

\* What a rename of old_tag to new_tag is to leave: old_tag on no list, new_tag
\* exactly once on every list that held old_tag, every category list sorted.
RenamedAsDocumented(before, after, old_tag, new_tag) ==
    LET Renamed(l0, l1) ==
            /\ old_tag \notin Range(l1)
            /\ old_tag \in Range(l0) =>
                  Cardinality({k \in 1..Len(l1) : l1[k] = new_tag}) = 1
    IN /\ Len(after.sections) = Len(before.sections)
       /\ \A i \in 1..Len(before.sections) :
             /\ Renamed(before.sections[i].tags, after.sections[i].tags)
             /\ Len(after.sections[i].notes) = Len(before.sections[i].notes)
             /\ \A j \in 1..Len(before.sections[i].notes) :
                   Renamed(before.sections[i].notes[j].tags,
                           after.sections[i].notes[j].tags)
       /\ Len(after.tag_categories) = Len(before.tag_categories)
       /\ \A i \in 1..Len(before.tag_categories) :
             /\ Renamed(before.tag_categories[i].tags, after.tag_categories[i].tags)
             /\ IsSortedLower(after.tag_categories[i].tags)

\* C18: after a successful global rename of old to new (old # new, old present,
\* new not already known) no section, note or category tag list contains old,
\* every list that contained old contains new exactly once and every category
\* list is sorted; the rename fails when old equals new or old is found
\* nowhere.  Through /tags/rename and through /tag/rename_globally.
C18_RenameReplacesEverywhere ==
    \A old_tag \in TagTargets \ {<<>>}, new_tag \in NewTagNames \ {<<>>} :
        \A answer \in {RenameGlobalTagOn(doc, old_tag, new_tag),
                        RenameTagGloballyOn(doc, old_tag, new_tag)} :
            /\ (/\ answer.outcome \in {"saved", "cleanup"}
                /\ old_tag # new_tag
                /\ Present(doc, old_tag)
                /\ new_tag \notin doc.known_tags \cup ContentTags(doc) \cup CategoryTags(doc))
               => RenamedAsDocumented(doc, answer.doc, old_tag, new_tag)
            /\ (old_tag = new_tag \/ ~Present(doc, old_tag))
               => answer.outcome \notin {"saved", "cleanup"}

\* What a global delete of tag is to leave: tag on no section, note or
\* category list, not in known_tags, not in and_tags, and every section and
\* note list as it was but for tag.
DeletedAsDocumented(before, after, tag) ==
    /\ tag \notin ContentTags(after) \cup CategoryTags(after)
    /\ tag \notin after.known_tags
    /\ tag \notin Range(after.and_tags)
    /\ Len(after.sections) = Len(before.sections)
    /\ \A i \in 1..Len(before.sections) :
          /\ after.sections[i].tags = Without(before.sections[i].tags, tag)
          /\ Len(after.sections[i].notes) = Len(before.sections[i].notes)
          /\ \A j \in 1..Len(before.sections[i].notes) :
                after.sections[i].notes[j].tags =
                    Without(before.sections[i].notes[j].tags, tag)

C20_DeletedCategoryTagsGoToUncategorized ==
    \A category_id \in CategoryIdInputs :
        LET found == FindCategory(doc, category_id)
            answer == DeleteCategoryOn(doc, category_id)
            after == answer.doc
        IN (found # 0 /\ ~IsUncategorized(doc.tag_categories[found])) =>
             LET C == doc.tag_categories[found]
                 others == UNION {Range(doc.tag_categories[i].tags) :
                                    i \in 1..Len(doc.tag_categories) \ {found}}
                 uncategorized == after.tag_categories[FindUncategorized(after)]
             IN /\ answer.outcome = "cleanup"
                /\ category_id \notin CatIds(after)
                /\ FindUncategorized(after) # 0
                /\ \A t \in Range(C.tags) :
                      /\ t \in ContentTags(doc) =>
                            t \in after.known_tags /\ t \in Range(uncategorized.tags)
                      /\ (t \notin ContentTags(doc) /\ t \notin others) =>
                            t \notin after.known_tags /\ t \notin Range(uncategorized.tags)

\* a category other than Uncategorized holds a tag used on content and a tag
\* used nowhere else, and its deletion goes through
C20_Witness ==
    \E i \in 1..Len(doc.tag_categories) :
        /\ ~IsUncategorized(doc.tag_categories[i])
        /\ \E t, u \in Range(doc.tag_categories[i].tags) :
              /\ t \in ContentTags(doc)
              /\ u \notin ContentTags(doc)
              /\ \A j \in 1..Len(doc.tag_categories) \ {i} :
                    u \notin Range(doc.tag_categories[j].tags)
        /\ DeleteCategoryOn(doc, doc.tag_categories[i].id).outcome = "cleanup"

\* ---------------------------------------------------------------------------
\* state_manager.save_state, step by step, with the failures of the file system

\* what the file system does to one call of save_state
SaveFaults == {"none", "write_error", "permission_error", "temp_vanished"}

\* retry_os_replace(src, dst): FileNotFoundError is printed and the function
\* returns; PermissionError is raised again after the last attempt
RetryOsReplace(src_data, dst, fault) ==
    CASE fault = "temp_vanished" ->
            [raised |-> FALSE, dst |-> dst, src_exists |-> FALSE]
      [] fault = "permission_error" ->
            [raised |-> TRUE, dst |-> dst, src_exists |-> TRUE]
      [] OTHER ->
            [raised |-> FALSE, dst |-> src_data, src_exists |-> FALSE]

\* retry_os_remove(path): the file is gone afterwards
RetryOsRemove(exists) == FALSE

\* save_state(state_name) on the Document d with the state file holding f:
\* the value returned, the state file and the temp file afterwards, and whether
\* last_save_error was set by this call
SaveStateCall(d, f, fault) ==
    LET state_to_save == SaveState(d)
        dumped == fault # "write_error"
        replace == RetryOsReplace(state_to_save, f, fault)
        raised == ~dumped \/ replace.raised
        temp_exists == IF dumped THEN replace.src_exists ELSE TRUE
    IN IF raised
       THEN [returned |-> FALSE, file |-> f,
             temp_exists |-> IF temp_exists THEN RetryOsRemove(temp_exists) ELSE FALSE,
             last_save_error |-> TRUE]
       ELSE [returned |-> TRUE, file |-> replace.dst,
             temp_exists |-> temp_exists, last_save_error |-> FALSE]

\* a handler has changed the Document in memory and the state file still
\* holds an earlier Document
InitSave ==
    /\ doc \in FilterDocs
    /\ disk \in {SaveState(DefaultState), SaveState(doc)}
    /\ outcome = "saved"
    /\ call = NoCall
    /\ user_config = NoUserConfig

SaveCall ==
    \E fault \in SaveFaults :
        LET result == SaveStateCall(doc, disk, fault)
        IN /\ disk' = result.file
           /\ call' = [stage |-> "save_state", fault |-> fault, result |-> result,
                       before |-> disk]
           /\ outcome' = IF result.returned THEN "saved" ELSE "rejected"
           /\ UNCHANGED <<doc, user_config>>

NextSave == SaveCall

SpecSave == InitSave /\ [][NextSave]_vars

\* C21: save_state returns True only if the state file then holds the
\* serialization of the in-memory Document; in every other outcome (write
\* error, PermissionError on every replace attempt, vanished temp file) it
\* returns False, records last_save_error, removes the temp file and leaves
\* the previous contents of the state file intact.
C21_SaveStateIsAllOrNothing ==
    call.stage = "save_state" =>
        /\ call.result.returned => disk = SaveState(doc)
        /\ ~call.result.returned =>
              /\ call.result.last_save_error
              /\ ~call.result.temp_exists
              /\ disk = call.before

\* ---------------------------------------------------------------------------
\* state_manager.load_state on the keys of core.document_state

\* a clear() that removes nothing
DictKeep(m) == m

\* dict.clear() and dict.update(other)
DictClear(m) == [k \in {} |-> {}]

DictUpdate(m, other) ==
    [k \in DOMAIN m \cup DOMAIN other |-> IF k \in DOMAIN other THEN other[k] ELSE m[k]]

\* a dict without the key k
WithoutKey(m, k) == [x \in DOMAIN m \ {k} |-> m[x]]

\* what load_state finds at the path of the state file
FileKinds == {"missing", "malformed", "json"}

\* loaded_data when the update is made: the parsed file with known_tags made
\* a set, tag_categories initialised and the category tags made unique; a key
\* and_tags the file does not hold is not added
LoadedData(f) ==
    LET full == IF "and_tags" \in DOMAIN f THEN f
                ELSE [sections |-> f.sections, known_tags |-> f.known_tags,
                      tag_categories |-> f.tag_categories, and_tags |-> <<>>]
        loaded == LoadState(full)
    IN IF "and_tags" \in DOMAIN f THEN loaded ELSE WithoutKey(loaded, "and_tags")

\* load_state(state_name) with the Document document in memory: the value
\* returned and the Document afterwards
LoadStateCall(document, kind, f) ==
    CASE kind = "missing" -> [returned |-> FALSE, document |-> document]
      [] kind = "malformed" -> [returned |-> FALSE, document |-> document]
      [] OTHER -> [returned |-> TRUE,
                   document |-> DictUpdate(DictClear(document), LoadedData(f))]

\* Documents in memory: with AND tags registered, with none, and without the
\* key and_tags (create_default_state sets none)
LoadDocs ==
    UNION {{d, [d EXCEPT !.and_tags = <<tAndAB>>], WithoutKey(d, "and_tags")} :
             d \in {x \in FilterDocs : Len(x.sections) <= 1}}

\* state files: the default one with and without and_tags, one written by
\* add_and_tag, one with a section, one without categories
LoadFiles ==
    LET default == SaveState(DefaultState)
    IN {default, WithoutKey(default, "and_tags"),
        [default EXCEPT !.and_tags = <<tAndAB>>],
        [default EXCEPT !.sections = <<[id |-> 1, tags |-> <<tA>>, notes |-> <<>>]>>,
                        !.known_tags = {tAll, tA}],
        WithoutKey([default EXCEPT !.tag_categories = <<>>, !.known_tags = {tB, tA}],
                   "and_tags")}

InitLoad ==
    /\ doc \in LoadDocs
    /\ disk \in LoadFiles
    /\ outcome = "saved"
    /\ call = NoCall
    /\ user_config = NoUserConfig

LoadCall ==
    \E kind \in FileKinds :
        LET result == LoadStateCall(doc, kind, disk)
        IN /\ doc' = result.document
           /\ call' = [stage |-> "load_state", kind |-> kind,
                       returned |-> result.returned, before |-> doc]
           /\ outcome' = IF result.returned THEN "index" ELSE "rejected"
           /\ UNCHANGED <<disk, user_config>>

NextLoad == LoadCall

SpecLoad == InitLoad /\ [][NextLoad]_vars

\* C22: load_state is all-or-nothing: when it returns False (file missing or
\* malformed) the in-memory Document is what it was before the call; when it
\* returns True the Document holds only the keys and values loaded from the
\* file, with nothing left over from the Document loaded before.
C22_LoadStateIsAllOrNothing ==
    call.stage = "load_state" =>
        IF call.returned
        THEN /\ DOMAIN doc = DOMAIN LoadedData(disk)
             /\ \A k \in DOMAIN doc : doc[k] = LoadedData(disk)[k]
        ELSE doc = call.before

C22_Witness ==
    /\ call.stage = "load_state"
    /\ call.returned
    /\ "and_tags" \in DOMAIN call.before
    /\ call.before.and_tags # <<>>
    /\ "and_tags" \notin DOMAIN disk
    /\ doc.sections # call.before.sections

\* ---------------------------------------------------------------------------
\* saving a Document and loading it back

\* equal up to the order of the tag lists
SameUpToTagOrder(a, b) ==
    /\ a.sections = b.sections
    /\ a.known_tags = b.known_tags
    /\ a.and_tags = b.and_tags
    /\ Len(a.tag_categories) = Len(b.tag_categories)
    /\ \A i \in 1..Len(a.tag_categories) :
          /\ a.tag_categories[i].id = b.tag_categories[i].id
          /\ a.tag_categories[i].name = b.tag_categories[i].name
          /\ Len(a.tag_categories[i].tags) = Len(b.tag_categories[i].tags)
          /\ Range(a.tag_categories[i].tags) = Range(b.tag_categories[i].tags)

\* save_state(name) followed by load_state(name)
RoundTrip(d) == LoadState(SaveState(d))

\* C23: for every Document D (one with an empty tag_categories list and the
\* default state included), saving D and loading it back yields a Document
\* equal to D up to the order of the tag lists, and a further save and load
\* changes nothing more.
C23_SaveLoadRoundTrip ==
    /\ SameUpToTagOrder(RoundTrip(doc), doc)
    /\ RoundTrip(RoundTrip(doc)) = RoundTrip(doc)

\* ---------------------------------------------------------------------------
\* the handlers that leave and_tags alone, with add_and_tag registering AND tags

NextComponents ==
    \/ Index
    \/ AddSection
    \/ UpdateSection
    \/ DeleteSection
    \/ AddGlobalTag
    \/ AddAndTag
    \/ ReorderNotes

SpecComponents == Init /\ [][NextComponents]_vars

\* C24: cleanup_orphan_tags() does not remove from known_tags or from any
\* category a tag that is a component of an AND tag registered in and_tags,
\* also when that tag is on no section or note and in no category other than
\* Uncategorized.
C24_CleanupKeepsAndTagComponents ==
    LET cleaned == CleanupOrphanTags(doc)
    IN \A t \in AndTagComponents(doc) :
          /\ t \in doc.known_tags => t \in cleaned.known_tags
          /\ \A i \in 1..Len(doc.tag_categories) :
                t \in Range(doc.tag_categories[i].tags)
                    => t \in Range(cleaned.tag_categories[i].tags)

\* ---------------------------------------------------------------------------
\* one call of tag_manager.cleanup_orphan_tags, with its persistence step

\* the names bound in the module py.core
CoreAttributes == {"os", "STATES_DIR", "SECRET_KEY", "document_state"}

\* cleanup_orphan_tags() on the Document d with the state file holding f: the
\* Document and the state file when it returns
CleanupOrphanTagsCall(d, f) ==
    LET cleaned == CleanupOrphanTags(d)
    IN [doc |-> cleaned,
        file |-> IF "save_state" \in CoreAttributes THEN SaveState(cleaned) ELSE f]

\* a handler has changed the Document in memory and calls cleanup_orphan_tags
CleanupCall ==
    LET result == CleanupOrphanTagsCall(doc, disk)
    IN /\ call.stage # "cleanup"
       /\ doc' = result.doc
       /\ disk' = result.file
       /\ call' = [stage |-> "cleanup", before |-> doc]
       /\ UNCHANGED <<outcome, user_config>>

NextCleanup == CleanupCall

SpecCleanup == InitSave /\ [][NextCleanup]_vars

\* C25: every call of cleanup_orphan_tags() is followed, before it returns, by
\* a persistence save, so that on return the state file equals the cleaned
\* in-memory Document.
C25_CleanupPersistsBeforeReturning ==
    call.stage = "cleanup" => disk = SaveState(doc)

\* C26: after any sequence of handlers (index with its remove_orphan_tags
\* pass, cleanup_orphan_tags, import, load_state) known_tags is in a form on
\* which the next handler's set operations succeed: add_global_tag,
\* delete_global_tag and the AND-merge branch of move_tag never fail because
\* known_tags is a list instead of a set.
C26_KnownTagsSetOperationsSucceed ==
    outcome = "raised" => doc.known_is_set

\* C27: after add_global_tag reports success for a new tag t (non-empty, not
\* already known case-insensitively), t is in known_tags and in the tag list of
\* the category named in the success message: the given target category, or
\* Uncategorized when none is given, also when t is on no section or note.
C27_AddedTagIsKnownAndCategorized ==
    \A new_tag \in TagNames \ {<<>>}, target_category_id \in CategoryIdInputs :
        LET answer == AddGlobalTagOn(doc, new_tag, target_category_id)
            target == AddGlobalTagTarget(doc, target_category_id)
        IN answer.outcome = "cleanup" =>
              /\ new_tag \in answer.doc.known_tags
              /\ new_tag \in Range(answer.doc.tag_categories[target].tags)

\* C28: an AND tag registered by the add_and_tag handler (which writes and_tags
\* straight into the state file) is still in the state file's and_tags after
\* any later save_state of the same state by any other handler; no save
\* overwrites it with an in-memory Document that lacks it.
C28_RegisteredAndTagsSurviveSaves ==
    [][Range(disk.and_tags) \subseteq Range(disk'.and_tags)]_vars

\* ---------------------------------------------------------------------------
\* views.reorder_notes on sections with several notes

\* the note_ids lists of the request: a full order, a partial one, one with an
\* unknown id, ones with a repeated id
ReorderNoteIds == {<<2, 1>>, <<2>>, <<1, 9>>, <<1, 1>>, <<2, 1, 2>>, <<>>}

ReorderCall ==
    \E section_id \in 1..(MaxFilterSections + 1), note_ids \in ReorderNoteIds :
        LET answer == ReorderNotesOn(doc, disk, section_id, note_ids)
        IN /\ call.stage = "none"
           /\ doc' = answer.doc
           /\ disk' = Persisted(answer, disk)
           /\ outcome' = answer.outcome
           /\ call' = [stage |-> "reordered", section_id |-> section_id,
                       note_ids |-> note_ids, before |-> doc]
           /\ UNCHANGED user_config

NextReorder == ReorderCall

SpecReorder == InitFilter /\ [][NextReorder]_vars

\* the ids of note_ids that name a note of the section, each once, in order
NamedNotes(notes, note_ids) ==
    DedupKeepOrder(SelectSeq(note_ids, LAMBDA nid : \E j \in 1..Len(notes) : notes[j].id = nid))

\* C29: reorder_notes keeps the section's notes a permutation of what they
\* were: for every note_ids list (with unknown, missing or repeated ids) each
\* note of the section appears exactly once afterwards, the notes named in
\* note_ids come first in the requested order, and no other section is changed.
C29_ReorderIsAPermutation ==
    (call.stage = "reordered" /\ outcome = "saved") =>
        \A i \in 1..Len(doc.sections) :
            LET before == call.before.sections[i].notes
                after == doc.sections[i].notes
                named == NamedNotes(before, call.note_ids)
            IN IF doc.sections[i].id # call.section_id
               THEN doc.sections[i] = call.before.sections[i]
               ELSE /\ \A j \in 1..Len(before) :
                          Cardinality({k \in 1..Len(after) : after[k] = before[j]}) = 1
                    /\ Len(after) = Len(before)
                    /\ \A j \in 1..Len(named) : after[j].id = named[j]

\* ---------------------------------------------------------------------------
\* per-user completion state: py/user_config_manager.py and
\* py/reset_completion_status.py.  user_config[u] is the content of
\* user-config/<u>_config.json: a dict from state names to records with the
\* key completed_notes; completed_notes is kept as the set of its elements
\* (the code only tests membership in it).

StateNames == {"Default_State", "Other_State"}

CompletionNoteIds == {1, 2}

\* one entry of a user config dict
DictSet(m, k, x) == [y \in DOMAIN m \cup {k} |-> IF y = k THEN x ELSE m[y]]

\* dict.get(k, default)
DictGet(m, k, default) == IF k \in DOMAIN m THEN m[k] ELSE default

\* user_config_manager.load_user_config: the parsed file; a file in the old
\* schema (top-level key completed_notes) is replaced by one entry for the
\* state of the request
LoadUserConfig(data, state_name) ==
    IF "completed_notes" \in DOMAIN data
    THEN DictSet([k \in {} |-> {}], state_name,
                 [completed_notes |-> DictGet(data["completed_notes"], state_name, {})])
    ELSE data

\* user_config_manager.toggle_note_completed(username, note_id) for the
\* request's state: the config saved and the value returned
ToggleNoteCompletedOn(data, state_name, note_id) ==
    LET config == LoadUserConfig(data, state_name)
        config1 == IF state_name \notin DOMAIN config
                   THEN DictSet(config, state_name, [completed_notes |-> {}])
                   ELSE config
        completed_notes == config1[state_name].completed_notes
        completed == note_id \notin completed_notes
        new_notes == IF completed THEN completed_notes \cup {note_id}
                     ELSE completed_notes \ {note_id}
    IN [config |-> DictSet(config1, state_name, [completed_notes |-> new_notes]),
        completed |-> completed]

\* user_config_manager.is_note_completed(username, note_id)
IsNoteCompleted(data, state_name, note_id) ==
    LET config == LoadUserConfig(data, state_name)
    IN IF state_name \notin DOMAIN config THEN FALSE
       ELSE note_id \in config[state_name].completed_notes

\* reset_completion_status(): the config of the user afterwards
ResetCompletionStatusOn(data, state_name) ==
    LET config == LoadUserConfig(data, state_name)
        completed_notes == DictGet(config, "completed_notes", [k \in {} |-> {}])
    IN IF state_name \in DOMAIN completed_notes
       THEN DictSet(config, "completed_notes", DictSet(completed_notes, state_name, {}))
       ELSE config

\* username = getattr(core, 'current_username', 'default_user'): the module
\* py.core binds no current_username
CurrentUsername == "default_user"

ToggleNoteCompleted ==
    \E username \in Users, state_name \in StateNames, note_id \in CompletionNoteIds :
        LET result == ToggleNoteCompletedOn(user_config[username], state_name, note_id)
        IN /\ user_config' = [user_config EXCEPT ![username] = result.config]
           /\ call' = [stage |-> "toggled", username |-> username,
                       state_name |-> state_name, note_id |-> note_id,
                       completed |-> result.completed, before |-> user_config]
           /\ UNCHANGED <<doc, disk, outcome>>

ResetCompletionStatus ==
    \E state_name \in StateNames :
        /\ user_config' = [user_config EXCEPT ![CurrentUsername] =
                              ResetCompletionStatusOn(@, state_name)]
        /\ call' = [stage |-> "reset", username |-> CurrentUsername,
                    state_name |-> state_name, note_id |-> 0,
                    completed |-> FALSE, before |-> user_config]
        /\ UNCHANGED <<doc, disk, outcome>>

NextCompletion == ToggleNoteCompleted \/ ResetCompletionStatus

SpecCompletion == Init /\ [][NextCompletion]_vars

\* is_note_completed is the same in both configs everywhere but at the given
\* (user, state, notes)
SameCompletionElsewhere(a, b, username, state_name, notes) ==
    \A u \in Users, s \in StateNames, n \in CompletionNoteIds :
        (u # username \/ s # state_name \/ n \notin notes)
            => IsNoteCompleted(a[u], s, n) = IsNoteCompleted(b[u], s, n)

\* C30: per-user completion state is consistent across its operations:
\* toggle_note_completed(user, note) flips the note's membership in the
\* completed set of the current state only and returns the new status; after
\* reset_completion_status for state S, is_note_completed is false for every
\* note of S; other states' and other users' entries are unchanged by both.
C30_CompletionStateIsConsistent ==
    /\ call.stage = "toggled" =>
          /\ IsNoteCompleted(user_config[call.username], call.state_name, call.note_id)
                = ~IsNoteCompleted(call.before[call.username], call.state_name,
                                   call.note_id)
          /\ call.completed
                = IsNoteCompleted(user_config[call.username], call.state_name,
                                  call.note_id)
          /\ SameCompletionElsewhere(user_config, call.before, call.username,
                                     call.state_name, {call.note_id})
    /\ call.stage = "reset" =>
          /\ \A n \in CompletionNoteIds :
                ~IsNoteCompleted(user_config[call.username], call.state_name, n)
          /\ SameCompletionElsewhere(user_config, call.before, call.username,
                                     call.state_name, CompletionNoteIds)

====
